---- MODULE Spec2Model ----
(***************************************************************************)
(* Model of src/agent.py: the lifecycle callbacks registered on the two    *)
(* agents, and in particular the hand-off explanation policy implemented   *)
(* by after_model_callback.                                                *)
(*                                                                         *)
(* Python values are represented as follows.                               *)
(*   - A str is a sequence of one-character strings, so that strip(),      *)
(*     f-string formatting and lexicographic comparison are computed.      *)
(*   - An Optional value is a sequence of length 0 (None) or 1 (the value).*)
(*   - An object is a record of its attributes.                            *)
(***************************************************************************)
EXTENDS Integers, Sequences, FiniteSets

VARIABLES
    pc,            \* "call": the host is about to invoke the callback; "done": it ended
    hook,          \* name of the callback
    agent_name,    \* callback_context.agent_name / tool_context.agent_name
    llm_response,  \* argument of after_model_callback, as the callback leaves it
    given,         \* that argument as the host handed it over
    llm_request,   \* argument of before_model_callback (its contents list)
    returned,      \* Optional: None, or the object the callback returned
    raised,        \* "" or the name of the exception that left the callback
    stdout,        \* the lines the invocation printed, in order
    payload,       \* dict arguments of the agent and tool callbacks
    reapplied      \* TRUE when llm_response is what an earlier invocation delivered

vars == <<pc, hook, agent_name, llm_response, given, llm_request, payload, returned, raised, stdout, reapplied>>

---------------------------------------------------------------------------
(* Bounds of the model *)

MaxParts == 2
MaxTextLen == 1
MaxContents == 2

---------------------------------------------------------------------------
(* Optional values *)

None == <<>>
Some(x) == <<x>>
IsNone(o) == o = <<>>
Get(o) == o[1]

SeqsUpTo(S, n) == UNION {[1..k -> S] : k \in 0..n}

---------------------------------------------------------------------------
(* Strings *)

\* The characters c with c.isspace(), which str.strip() removes.  A character
\* that a string literal here cannot hold is named by its code point.
Whitespace ==
    {"\t", "\n", "U+000B", "\f", "\r",
     "U+001C", "U+001D", "U+001E", "U+001F",
     " ", "U+0085", "U+00A0", "U+1680",
     "U+2000", "U+2001", "U+2002", "U+2003", "U+2004", "U+2005",
     "U+2006", "U+2007", "U+2008", "U+2009", "U+200A",
     "U+2028", "U+2029", "U+202F", "U+205F", "U+3000"}

RECURSIVE LStrip(_)
LStrip(s) ==
    IF s = <<>> THEN <<>>
    ELSE IF Head(s) \in Whitespace THEN LStrip(Tail(s)) ELSE s

RECURSIVE RStrip(_)
RStrip(s) ==
    IF s = <<>> THEN <<>>
    ELSE IF s[Len(s)] \in Whitespace THEN RStrip(SubSeq(s, 1, Len(s) - 1)) ELSE s

\* str.strip() with no argument: leading and trailing whitespace removed
Strip(s) == RStrip(LStrip(s))

\* truth value of a str
StrTruthy(s) == s # <<>>

TransferToAgent == <<"t","r","a","n","s","f","e","r","_","t","o","_","a","g","e","n","t">>
GoogleSearch == <<"g","o","o","g","l","e","_","s","e","a","r","c","h">>
SearchFormatAgent ==
    <<"s","e","a","r","c","h","_","f","o","r","m","a","t","_","a","g","e","n","t">>
RootAgent == <<"r","o","o","t","_","a","g","e","n","t">>

---------------------------------------------------------------------------
(* Objects handed to after_model_callback *)

\* Python exceptions a subscript or attribute lookup can end with ("" = none)
NoExc == ""

\* A function call's args: None, a non-mapping (a list), or a dict given by its items
NoneArgs == [kind |-> "None", items |-> {}]
ListArgs == [kind |-> "list", items |-> {}]
DictArgs(items) == [kind |-> "dict", items |-> items]

AgentNameValues == {<<>>, SearchFormatAgent}

TransferArgs ==
    {NoneArgs, ListArgs, DictArgs({})}
        \cup {DictArgs({<<"agent_name", v>>}) : v \in AgentNameValues}

SearchArgs == {DictArgs({<<"query", <<"T","S","L","A">> >>})}

FunctionCall(name, args) == [name |-> name, args |-> args]

\* A part: types.Part carries text and function_call (and payload fields that
\* after_model_callback never reads).  types.Part has no attribute `args`, so
\* every part the framework hands over has args_attr = FALSE.  Line 59 reads
\* `args` on the part itself; args_attr = TRUE is a stand-in part object that
\* has that attribute, holding its function call's args.
Part(text, function_call, args_attr) ==
    [text |-> text, function_call |-> function_call, args_attr |-> args_attr]

TextChars == {" ", "\f", "a"}
Texts == SeqsUpTo(TextChars, MaxTextLen)

TextParts == {Part(Some(t), None, FALSE) : t \in Texts}
BlankPart == Part(None, None, FALSE)
SearchParts == {Part(None, Some(FunctionCall(GoogleSearch, a)), FALSE) : a \in SearchArgs}
TransferParts ==
    {Part(None, Some(FunctionCall(TransferToAgent, a)), FALSE) : a \in TransferArgs}

\* the parts of a model response as the framework builds it
ResponseParts == TextParts \cup {BlankPart} \cup SearchParts \cup TransferParts

\* transfer calls on stand-in parts, for which line 59 finds an `args` attribute
StandInTransferParts ==
    {Part(None, Some(FunctionCall(TransferToAgent, a)), TRUE) : a \in TransferArgs}

StandInResponseParts == ResponseParts \cup StandInTransferParts

Roles == {None, Some(<<"m","o","d","e","l">>)}

Content(parts, role) == [parts |-> parts, role |-> role]

ContentsOver(parts) ==
    {None} \cup
    {Some(Content(ps, r)) :
        ps \in {None} \cup {Some(q) : q \in SeqsUpTo(parts, MaxParts)},
        r \in Roles}

UsageMetadata(p, c, t) ==
    [prompt_token_count |-> p, candidates_token_count |-> c, total_token_count |-> t]

Usages ==
    {None, Some(UsageMetadata(None, None, None)), Some(UsageMetadata(Some(0), Some(7), Some(7)))}

LlmResponse(content, usage_metadata) ==
    [content |-> content, usage_metadata |-> usage_metadata]

\* the responses the framework hands to after_model_callback
Responses == {LlmResponse(c, u) : c \in ContentsOver(ResponseParts), u \in Usages}

\* those responses, and the ones a caller builds with stand-in parts
StandInResponses ==
    {LlmResponse(c, u) : c \in ContentsOver(StandInResponseParts), u \in Usages}

AgentNames == {RootAgent, SearchFormatAgent}

---------------------------------------------------------------------------
(* after_model_callback *)

\* truth value of llm_response.content and llm_response.content.parts
HasParts(resp) ==
    /\ ~IsNone(resp.content)
    /\ ~IsNone(Get(resp.content).parts)
    /\ Get(Get(resp.content).parts) # <<>>

PartsOf(resp) == IF HasParts(resp) THEN Get(Get(resp.content).parts) ELSE <<>>

\* part.function_call and part.function_call.name == "transfer_to_agent"
IsTransferCall(part) ==
    /\ ~IsNone(part.function_call)
    /\ Get(part.function_call).name = TransferToAgent

\* mutant of FindTransferCall: any function call counts, whatever its name
FindAnyFunctionCall(parts) ==
    IF \E i \in 1..Len(parts) : ~IsNone(parts[i].function_call)
    THEN CHOOSE i \in 1..Len(parts) :
            /\ ~IsNone(parts[i].function_call)
            /\ \A j \in 1..(i - 1) : IsNone(parts[j].function_call)
    ELSE 0

\* index of transfer_call_part: the first transfer call, 0 when there is none
FindTransferCall(parts) ==
    IF \E i \in 1..Len(parts) : IsTransferCall(parts[i])
    THEN CHOOSE i \in 1..Len(parts) :
            /\ IsTransferCall(parts[i])
            /\ \A j \in 1..(i - 1) : ~IsTransferCall(parts[j])
    ELSE 0

\* mutant of HasTextReason: only the leading part is looked at
HasTextReasonLeadingOnly(parts) ==
    /\ parts # <<>>
    /\ ~IsNone(parts[1].text)
    /\ StrTruthy(Strip(Get(parts[1].text)))

\* any(part.text.strip() for part in parts if part.text)
HasTextReason(parts) ==
    \E i \in 1..Len(parts) :
        /\ ~IsNone(parts[i].text)
        /\ StrTruthy(Get(parts[i].text))
        /\ StrTruthy(Strip(Get(parts[i].text)))

\* transfer_call_part.args: attribute `args` of the part itself
GetArgsAttr(part) ==
    IF part.args_attr
    THEN [exc |-> NoExc, value |-> Get(part.function_call).args]
    ELSE [exc |-> "AttributeError", value |-> NoneArgs]

\* args["agent_name"]
Subscript(args, key) ==
    IF args.kind # "dict"
    THEN [exc |-> "TypeError", value |-> <<>>]
    ELSE IF \E it \in args.items : it[1] = key
    THEN [exc |-> NoExc, value |-> (CHOOSE it \in args.items : it[1] = key)[2]]
    ELSE [exc |-> "KeyError", value |-> <<>>]

\* target_agent = transfer_call_part.args["agent_name"]
TargetAgent(part) ==
    LET a == GetArgsAttr(part)
    IN  IF a.exc # NoExc THEN [exc |-> a.exc, value |-> <<>>]
        ELSE Subscript(a.value, "agent_name")

\* the grave accent character, which a string literal here cannot hold
BackTick == "U+0060"

\* mutant of ExplanationText: the bare target name, without the sentence
ExplanationTextNameOnly(target_agent) == target_agent

\* f"Handing off to `{target_agent}` to complete the request."
ExplanationText(target_agent) ==
    <<"H","a","n","d","i","n","g"," ","o","f","f"," ","t","o"," ",BackTick>>
        \o target_agent \o
    <<BackTick," ","t","o"," ","c","o","m","p","l","e","t","e"," ",
      "t","h","e"," ","r","e","q","u","e","s","t",".">>

\* types.Part(text=explanation_text)
ExplanationPart(target_agent) == Part(Some(ExplanationText(target_agent)), None, FALSE)

\* mutant of NewParts: the explanation is appended
NewPartsAppended(explanation_part, parts) == parts \o <<explanation_part>>

\* new_parts = [explanation_part] + list(llm_response.content.parts)
NewParts(explanation_part, parts) == <<explanation_part>> \o parts

\* mutant of NewResponse: the usage metadata is not carried over
NewResponseWithoutUsage(resp, new_parts) ==
    LlmResponse(Some(Content(Some(new_parts), Get(resp.content).role)), None)

\* LlmResponse(content=types.Content(parts=new_parts, role=...), usage_metadata=...)
NewResponse(resp, new_parts) ==
    LlmResponse(Some(Content(Some(new_parts), Get(resp.content).role)), resp.usage_metadata)

\* truth value of an Optional[int] token count
CountTruthy(n) == ~IsNone(n) /\ Get(n) # 0

\* the token usage report
UsageLines(usage_metadata) ==
    IF IsNone(usage_metadata) THEN <<>>
    ELSE LET usage == Get(usage_metadata)
         IN  << <<"Token Usage">> >>
             \o (IF CountTruthy(usage.prompt_token_count)
                 THEN << <<"Prompt", Get(usage.prompt_token_count)>> >> ELSE <<>>)
             \o (IF CountTruthy(usage.candidates_token_count)
                 THEN << <<"Candidates", Get(usage.candidates_token_count)>> >> ELSE <<>>)
             \o (IF CountTruthy(usage.total_token_count)
                 THEN << <<"Total", Get(usage.total_token_count)>> >> ELSE <<>>)

\* the default behaviour: trace line, usage report, return None
DefaultAfterModel(agent, resp) ==
    [returned |-> None, raised |-> NoExc, response |-> resp,
     stdout |-> << <<"AFTER MODEL CALL", agent>> >> \o UsageLines(resp.usage_metadata)]

\* the whole of after_model_callback(callback_context, llm_response); the
\* callback assigns nothing to llm_response or to the objects it holds
AfterModel(agent, resp) ==
    LET parts == PartsOf(resp)
        idx == FindTransferCall(parts)
    IN  IF HasParts(resp) /\ idx # 0 /\ ~HasTextReason(parts)
        THEN LET t == TargetAgent(parts[idx])
             IN  IF t.exc = NoExc
                 THEN [returned |->
                          Some(NewResponse(resp, NewParts(ExplanationPart(t.value), parts))),
                       raised |-> NoExc, response |-> resp, stdout |-> <<>>]
                 ELSE IF t.exc \in {"KeyError", "TypeError"}
                 THEN DefaultAfterModel(agent, resp)
                 ELSE [returned |-> None, raised |-> t.exc, response |-> resp,
                       stdout |-> <<>>]
        ELSE DefaultAfterModel(agent, resp)

\* what the host delivers downstream: the replacement when one is returned,
\* otherwise the original response
Delivered == IF IsNone(returned) THEN llm_response ELSE Get(returned)

---------------------------------------------------------------------------
(* Objects handed to before_model_callback *)

TextCategory == <<"t","e","x","t">>
ImagePng == <<"i","m","a","g","e","/","p","n","g">>
ApplicationPdf == <<"a","p","p","l","i","c","a","t","i","o","n","/","p","d","f">>

\* a Blob or a FileData, of which the callback reads mime_type only
Payload(mime_type) == [mime_type |-> mime_type]

RequestPart(text, inline_data, file_data) ==
    [text |-> text, inline_data |-> inline_data, file_data |-> file_data]

RequestParts ==
    { RequestPart(Some(<<"h","i">>), None, None),
      RequestPart(None, Some(Payload(Some(ImagePng))), None),
      RequestPart(None, None, Some(Payload(Some(ApplicationPdf)))),
      RequestPart(Some(<<>>), Some(Payload(None)), None) }

\* a types.Content of the request: its parts list may be absent
RequestContents ==
    {[parts |-> ps] : ps \in {None} \cup {Some(q) : q \in SeqsUpTo(RequestParts, MaxParts)}}

\* llm_request.contents
Requests == SeqsUpTo(RequestContents, MaxContents)

---------------------------------------------------------------------------
(* before_model_callback *)

\* the characters of the model's media types, in ascending code point order
CharOrder ==
    <<"/","a","b","c","d","e","f","g","h","i","j","k","l","m",
      "n","o","p","q","r","s","t","u","v","w","x","y","z">>

Ord(c) == CHOOSE i \in 1..Len(CharOrder) : CharOrder[i] = c

\* a < b for str: lexicographic by code point, a proper prefix being smaller
RECURSIVE StrLess(_, _)
StrLess(a, b) ==
    IF b = <<>> THEN FALSE
    ELSE IF a = <<>> THEN TRUE
    ELSE IF Head(a) # Head(b) THEN Ord(Head(a)) < Ord(Head(b))
    ELSE StrLess(Tail(a), Tail(b))

\* set(content_types)
ToSet(seq) == {seq[i] : i \in 1..Len(seq)}

\* sorted(list(...)) of a set of str
RECURSIVE Sorted(_)
Sorted(S) ==
    IF S = {} THEN <<>>
    ELSE LET m == CHOOSE x \in S : \A y \in S \ {x} : StrLess(x, y)
         IN  <<m>> \o Sorted(S \ {m})

\* what one iteration of the inner loop appends to content_types
PartContentTypes(part) ==
    (IF ~IsNone(part.text) /\ StrTruthy(Get(part.text)) THEN <<TextCategory>> ELSE <<>>)
    \o (IF ~IsNone(part.inline_data) /\ ~IsNone(Get(part.inline_data).mime_type)
           /\ StrTruthy(Get(Get(part.inline_data).mime_type))
        THEN <<Get(Get(part.inline_data).mime_type)>> ELSE <<>>)
    \o (IF ~IsNone(part.file_data) /\ ~IsNone(Get(part.file_data).mime_type)
           /\ StrTruthy(Get(Get(part.file_data).mime_type))
        THEN <<Get(Get(part.file_data).mime_type)>> ELSE <<>>)

\* for part in content.parts: ... over a parts list
RECURSIVE PartsContentTypes(_)
PartsContentTypes(parts) ==
    IF parts = <<>> THEN <<>>
    ELSE PartContentTypes(Head(parts)) \o PartsContentTypes(Tail(parts))

\* for content in llm_request.contents: iterating content.parts raises
\* TypeError when the parts list is None
RECURSIVE CollectContentTypes(_)
CollectContentTypes(contents) ==
    IF contents = <<>> THEN [exc |-> NoExc, types |-> <<>>]
    ELSE IF IsNone(Head(contents).parts) THEN [exc |-> "TypeError", types |-> <<>>]
    ELSE LET rest == CollectContentTypes(Tail(contents))
         IN  [exc |-> rest.exc,
              types |-> PartsContentTypes(Get(Head(contents).parts)) \o rest.types]

\* the "Content Types" trace line: printed only when content_types is non-empty
ContentTypesLines(content_types) ==
    IF content_types # <<>>
    THEN << <<"Content Types", Sorted(ToSet(content_types))>> >>
    ELSE <<>>

\* the whole of before_model_callback(callback_context, llm_request)
BeforeModel(agent, contents) ==
    LET c == CollectContentTypes(contents)
    IN  IF c.exc # NoExc
        THEN [returned |-> None, raised |-> c.exc,
              stdout |-> << <<"BEFORE MODEL CALL", agent>> >>]
        ELSE [returned |-> None, raised |-> NoExc,
              stdout |-> << <<"BEFORE MODEL CALL", agent>> >> \o ContentTypesLines(c.types)]

---------------------------------------------------------------------------
(* agent and tool callbacks *)

\* a dict, given by its items: session state, tool args, tool response
Dicts == { {}, {<<"ticker", <<"T","S","L","A">> >>} }

\* before_agent_callback(callback_context)
BeforeAgent(agent, state) ==
    [returned |-> None, raised |-> NoExc,
     stdout |-> << <<"BEFORE AGENT", agent>>, <<"State", state>> >>]

\* after_agent_callback(callback_context)
AfterAgent(agent, state) ==
    [returned |-> None, raised |-> NoExc,
     stdout |-> << <<"AFTER AGENT", agent>>, <<"State", state>> >>]

\* before_tool_callback(tool, args, tool_context)
BeforeTool(tool, agent, args) ==
    [returned |-> None, raised |-> NoExc,
     stdout |-> << <<"BEFORE TOOL CALL", tool>>, <<"Agent", agent>>, <<"Args", args>> >>]

\* after_tool_callback(tool, args, tool_context, tool_response)
AfterTool(tool, agent, args, tool_response) ==
    [returned |-> None, raised |-> NoExc,
     stdout |-> << <<"AFTER TOOL CALL", tool>>, <<"Agent", agent>>,
                   <<"Response", tool_response>> >>]

---------------------------------------------------------------------------
(* The host invoking the callbacks *)

NoResponse == LlmResponse(None, None)

NoOutcome ==
    /\ returned = None
    /\ raised = NoExc
    /\ stdout = <<>>
    /\ reapplied = FALSE

\* the host is about to hand a model response to after_model_callback
Init ==
    /\ pc = "call"
    /\ hook = "after_model"
    /\ agent_name \in AgentNames
    /\ llm_response \in Responses
    /\ given = llm_response
    /\ llm_request = <<>>
    /\ payload = <<{}, {}>>
    /\ NoOutcome

\* a caller is about to hand after_model_callback a response that may hold
\* stand-in parts
InitStandIn ==
    /\ pc = "call"
    /\ hook = "after_model"
    /\ agent_name \in AgentNames
    /\ llm_response \in StandInResponses
    /\ given = llm_response
    /\ llm_request = <<>>
    /\ payload = <<{}, {}>>
    /\ NoOutcome

\* the host is about to invoke one of the observability hooks
InitHooks ==
    /\ pc = "call"
    /\ agent_name \in AgentNames
    /\ llm_response = NoResponse
    /\ given = NoResponse
    /\ NoOutcome
    /\ \/ /\ hook \in {"before_agent", "after_agent", "before_tool"}
          /\ llm_request = <<>>
          /\ payload \in Dicts \X {{}}
       \/ /\ hook = "after_tool"
          /\ llm_request = <<>>
          /\ payload \in Dicts \X Dicts
       \/ /\ hook = "before_model"
          /\ llm_request \in Requests
          /\ payload = <<{}, {}>>

Outcome(r) ==
    /\ pc' = "done"
    /\ returned' = r.returned
    /\ raised' = r.raised
    /\ stdout' = r.stdout

AfterModelCallback ==
    /\ pc = "call"
    /\ hook = "after_model"
    /\ Outcome(AfterModel(agent_name, llm_response))
    /\ llm_response' = AfterModel(agent_name, llm_response).response
    /\ UNCHANGED <<hook, agent_name, given, llm_request, payload, reapplied>>

\* the response delivered by an after_model_callback invocation is handed to
\* after_model_callback again
AfterModelCallbackAgain ==
    /\ pc = "done"
    /\ hook = "after_model"
    /\ raised = NoExc
    /\ given' = Delivered
    /\ llm_response' = AfterModel(agent_name, Delivered).response
    /\ reapplied' = TRUE
    /\ Outcome(AfterModel(agent_name, Delivered))
    /\ UNCHANGED <<hook, agent_name, llm_request, payload>>

BeforeModelCallback ==
    /\ pc = "call"
    /\ hook = "before_model"
    /\ Outcome(BeforeModel(agent_name, llm_request))
    /\ UNCHANGED <<hook, agent_name, llm_response, given, llm_request, payload, reapplied>>

BeforeAgentCallback ==
    /\ pc = "call"
    /\ hook = "before_agent"
    /\ Outcome(BeforeAgent(agent_name, payload[1]))
    /\ UNCHANGED <<hook, agent_name, llm_response, given, llm_request, payload, reapplied>>

AfterAgentCallback ==
    /\ pc = "call"
    /\ hook = "after_agent"
    /\ Outcome(AfterAgent(agent_name, payload[1]))
    /\ UNCHANGED <<hook, agent_name, llm_response, given, llm_request, payload, reapplied>>

BeforeToolCallback ==
    /\ pc = "call"
    /\ hook = "before_tool"
    /\ Outcome(BeforeTool(GoogleSearch, agent_name, payload[1]))
    /\ UNCHANGED <<hook, agent_name, llm_response, given, llm_request, payload, reapplied>>

AfterToolCallback ==
    /\ pc = "call"
    /\ hook = "after_tool"
    /\ Outcome(AfterTool(GoogleSearch, agent_name, payload[1], payload[2]))
    /\ UNCHANGED <<hook, agent_name, llm_response, given, llm_request, payload, reapplied>>

\* the hand-off explanation policy
Next == AfterModelCallback \/ AfterModelCallbackAgain

\* after_model_callback on the responses the framework builds
Spec == Init /\ [][Next]_vars

\* after_model_callback on every response of Spec and on those with stand-in parts
SpecStandIn == InitStandIn /\ [][Next]_vars

\* the observability hooks
NextHooks ==
    \/ BeforeAgentCallback
    \/ AfterAgentCallback
    \/ BeforeModelCallback
    \/ BeforeToolCallback
    \/ AfterToolCallback

SpecHooks == InitHooks /\ [][NextHooks]_vars

---------------------------------------------------------------------------
(* Vocabulary of the properties, stated without the callback's own helpers *)

\* the part sequence of a response, empty when content or parts are absent
RawParts(resp) ==
    IF IsNone(resp.content) THEN <<>>
    ELSE IF IsNone(Get(resp.content).parts) THEN <<>>
    ELSE Get(Get(resp.content).parts)

\* a text part with non-whitespace content
NonBlankText(part) ==
    /\ ~IsNone(part.text)
    /\ \E i \in 1..Len(Get(part.text)) : Get(part.text)[i] \notin Whitespace

\* a function-call part named transfer_to_agent
TransferPart(part) ==
    /\ ~IsNone(part.function_call)
    /\ Get(part.function_call).name = TransferToAgent

\* the call's arguments are a mapping that carries agent_name
CarriesAgentName(part) ==
    /\ Get(part.function_call).args.kind = "dict"
    /\ \E it \in Get(part.function_call).args.items : it[1] = "agent_name"

AgentNameOf(part) ==
    (CHOOSE it \in Get(part.function_call).args.items : it[1] = "agent_name")[2]

HasTransfer(parts) == \E i \in 1..Len(parts) : TransferPart(parts[i])
HasNonBlankText(parts) == \E i \in 1..Len(parts) : NonBlankText(parts[i])

FirstTransfer(parts) ==
    CHOOSE i \in 1..Len(parts) :
        TransferPart(parts[i]) /\ \A j \in 1..(i - 1) : ~TransferPart(parts[j])

\* the synthesized sentence for a target name
Sentence(target) ==
    <<"H","a","n","d","i","n","g"," ","o","f","f"," ","t","o"," ",BackTick>>
        \o target \o
    <<BackTick," ","t","o"," ","c","o","m","p","l","e","t","e"," ",
      "t","h","e"," ","r","e","q","u","e","s","t",".">>

SynthesizedPart(part) ==
    /\ ~IsNone(part.text)
    /\ \E v \in AgentNameValues : Get(part.text) = Sentence(v)

AfterModelDone == pc = "done" /\ hook = "after_model"

TraceWritten == stdout # <<>> /\ stdout[1] = <<"AFTER MODEL CALL", agent_name>>

UsageReported == \E i \in 1..Len(stdout) : stdout[i] = <<"Token Usage">>

\* a response as the framework builds it: every part is a types.Part, which
\* has no attribute `args`
FrameworkMade(resp) ==
    \A i \in 1..Len(RawParts(resp)) : ~RawParts(resp)[i].args_attr

\* the callback returned None and left the response as it was given
Unmodified == raised = NoExc /\ IsNone(returned) /\ llm_response = given

---------------------------------------------------------------------------
(* The hand-off explanation policy: claims checked under Spec *)

\* every transfer call of the sequence has a non-blank text part somewhere before it
HandoffExplained(parts) ==
    \A i \in 1..Len(parts) :
        TransferPart(parts[i]) => \E j \in 1..(i - 1) : NonBlankText(parts[j])

\* C1: in the response delivered downstream (the replacement when one is
\* returned, otherwise the original) every transfer_to_agent call is preceded,
\* in part order, by a text part with non-whitespace content.  Stated for the
\* responses the framework builds and the invocations that deliver one.
C1_HandoffInvariant ==
    (AfterModelDone /\ FrameworkMade(given) /\ raised = NoExc)
        => HandoffExplained(RawParts(Delivered))

\* C2: a response with a transfer_to_agent call whose arguments carry
\* agent_name, and with no non-blank text part, is replaced by a response whose
\* first part is the sentence naming the target and whose remaining parts are
\* the original parts in their order.  Stated for the responses the framework
\* builds.
C2_SynthesizesExplanation ==
    LET parts == RawParts(given)
        valid == {i \in 1..Len(parts) :
                     TransferPart(parts[i]) /\ CarriesAgentName(parts[i])}
    IN  (AfterModelDone /\ FrameworkMade(given) /\ valid # {} /\ ~HasNonBlankText(parts)) =>
            /\ raised = NoExc
            /\ ~IsNone(returned)
            /\ RawParts(Get(returned)) # <<>>
            /\ \E i \in valid :
                   Head(RawParts(Get(returned))).text = Some(Sentence(AgentNameOf(parts[i])))
            /\ Tail(RawParts(Get(returned))) = parts

\* C3: a response with a transfer_to_agent call and a non-blank text part at
\* any position gets None back and keeps its parts, role and usage metadata.
C3_ReasonedTransferUntouched ==
    (AfterModelDone /\ HasTransfer(RawParts(given)) /\ HasNonBlankText(RawParts(given)))
        => Unmodified

\* C3 witness: the text follows the transfer call, and nothing was modified
C3_Witness ==
    /\ AfterModelDone
    /\ ~reapplied
    /\ Len(RawParts(given)) = 2
    /\ TransferPart(RawParts(given)[1])
    /\ CarriesAgentName(RawParts(given)[1])
    /\ RawParts(given)[1].args_attr
    /\ NonBlankText(RawParts(given)[2])
    /\ Unmodified

\* C4: when the transfer call's arguments lack agent_name or are no mapping,
\* and there is no non-blank text, the callback does not raise, returns None
\* with the response unchanged, and the default trace is written.  Stated for
\* the responses the framework builds.
C4_MalformedArgsPassThrough ==
    LET parts == RawParts(given)
    IN  (/\ AfterModelDone
         /\ FrameworkMade(given)
         /\ HasTransfer(parts)
         /\ ~HasNonBlankText(parts)
         /\ ~CarriesAgentName(parts[FirstTransfer(parts)]))
            => (Unmodified /\ TraceWritten)

\* The outcomes of C2 and C4 are reached when the first transfer call is a part
\* object that exposes args itself: the replacement for a mapping that carries
\* agent_name, the default path otherwise.
ExposedArgsHandled ==
    LET parts == RawParts(given)
    IN  (/\ AfterModelDone
         /\ HasTransfer(parts)
         /\ ~HasNonBlankText(parts)
         /\ parts[FirstTransfer(parts)].args_attr)
            => IF CarriesAgentName(parts[FirstTransfer(parts)])
               THEN /\ raised = NoExc
                    /\ ~IsNone(returned)
                    /\ Head(RawParts(Get(returned))).text
                           = Some(Sentence(AgentNameOf(parts[FirstTransfer(parts)])))
                    /\ Tail(RawParts(Get(returned))) = parts
               ELSE Unmodified /\ TraceWritten

\* C5: a response without a transfer_to_agent call (no content, no parts, an
\* empty part list, only other function calls) gets None back and the default
\* trace and usage report are written.
C5_NoTransferDefaultPath ==
    (AfterModelDone /\ ~HasTransfer(RawParts(given))) =>
        /\ Unmodified
        /\ TraceWritten
        /\ UsageReported <=> ~IsNone(given.usage_metadata)

\* C5 witness: a search tool call alone, with usage metadata, took the default path
C5_Witness ==
    /\ AfterModelDone
    /\ Len(RawParts(given)) = 1
    /\ ~IsNone(RawParts(given)[1].function_call)
    /\ Get(RawParts(given)[1].function_call).name = GoogleSearch
    /\ ~IsNone(given.usage_metadata)
    /\ TraceWritten
    /\ UsageReported

PrependedBeforeAllParts ==
    (AfterModelDone /\ ~IsNone(returned)) =>
        LET old == RawParts(given)
            new == RawParts(Get(returned))
            i == FirstTransfer(old)
        IN  /\ new # <<>>
            /\ Head(new).text = Some(Sentence(AgentNameOf(old[i])))
            /\ IsNone(Head(new).function_call)
            /\ Tail(new) = old
            /\ TransferPart(new[2]) <=> i = 1

\* No replacement is ever built for a response the framework hands over.
NoReplacementForFrameworkParts ==
    (AfterModelDone /\ FrameworkMade(given)) => IsNone(returned)

\* C9: an invocation that completes either returns a replacement and writes
\* nothing, or writes the after-model trace and returns None; a replacement
\* carries the original usage metadata and role.
C9_TraceIffUnmodified ==
    (AfterModelDone /\ raised = NoExc) =>
        /\ IsNone(returned) <=> TraceWritten
        /\ ~IsNone(returned) => stdout = <<>>
        /\ ~IsNone(returned) =>
              /\ Get(returned).usage_metadata = given.usage_metadata
              /\ Get(Get(returned).content).role = Get(given.content).role

\* C9 witness: a replacement was returned for a response with usage metadata and a role
C9_Witness ==
    /\ AfterModelDone
    /\ ~IsNone(returned)
    /\ ~IsNone(given.usage_metadata)
    /\ ~IsNone(Get(given.content).role)
    /\ stdout = <<>>

SynthCount(parts) == Cardinality({i \in 1..Len(parts) : SynthesizedPart(parts[i])})

\* C10: applied to a response it delivered, the callback returns None, so the
\* delivered response never holds more than one synthesized part.
C10_Idempotent ==
    (AfterModelDone /\ reapplied) =>
        /\ raised = NoExc
        /\ IsNone(returned)
        /\ SynthCount(RawParts(Delivered)) <= 1

\* C10 witness: the callback was applied to its own replacement, synthesized
\* for an empty target name, and returned None
C10_Witness ==
    /\ AfterModelDone
    /\ reapplied
    /\ RawParts(given) # <<>>
    /\ RawParts(given)[1].text = Some(Sentence(<<>>))
    /\ IsNone(returned)

---------------------------------------------------------------------------
(* The observability hooks: claims checked under SpecHooks *)

\* the categories of one part: "text" for non-empty text, the media types
PartCategories(part) ==
    (IF ~IsNone(part.text) /\ Get(part.text) # <<>> THEN {TextCategory} ELSE {})
    \cup (IF ~IsNone(part.inline_data) /\ ~IsNone(Get(part.inline_data).mime_type)
          THEN {Get(Get(part.inline_data).mime_type)} \ {<<>>} ELSE {})
    \cup (IF ~IsNone(part.file_data) /\ ~IsNone(Get(part.file_data).mime_type)
          THEN {Get(Get(part.file_data).mime_type)} \ {<<>>} ELSE {})

\* the categories present over all parts of all contents
Categories(contents) ==
    LET lists == {Get(contents[i].parts) :
                     i \in {j \in 1..Len(contents) : ~IsNone(contents[j].parts)}}
    IN  UNION {UNION {PartCategories(ps[k]) : k \in 1..Len(ps)} : ps \in lists}

\* the list on the "Content Types" trace line, empty when no such line was written
Reported ==
    IF \E i \in 1..Len(stdout) : stdout[i][1] = "Content Types"
    THEN (CHOOSE l \in ToSet(stdout) : l[1] = "Content Types")[2]
    ELSE <<>>

\* a comes before b in lexicographic order
Before(a, b) ==
    \E k \in 1..Len(b) :
        /\ k <= Len(a) + 1
        /\ \A j \in 1..(k - 1) : a[j] = b[j]
        /\ k = Len(a) + 1 \/ Ord(a[k]) < Ord(b[k])

\* C6: for every request the reported list holds exactly the categories
\* present over all parts of all contents, deduplicated and ascending.
C6_ContentTypesReported ==
    (pc = "done" /\ hook = "before_model") =>
        /\ ToSet(Reported) = Categories(llm_request)
        /\ \A i \in 1..(Len(Reported) - 1) : Before(Reported[i], Reported[i + 1])

\* The report of C6 is right in every invocation that did not raise.
ContentTypesReportedUnlessRaised == (raised = NoExc) => C6_ContentTypesReported

\* A request of a text part and an image/png payload, in either order and
\* repeated, is reported as image/png, text.
TextAndPngReported ==
    (/\ pc = "done"
     /\ hook = "before_model"
     /\ raised = NoExc
     /\ Categories(llm_request) = {TextCategory, ImagePng})
        => Reported = <<ImagePng, TextCategory>>

\* C7: the observability hooks never raise and always return None.
C7_HooksNeverRaise ==
    (pc = "done" /\ hook # "after_model") => (raised = NoExc /\ IsNone(returned))

====
